---- MODULE Spec2Model ----
(***************************************************************************)
(* EIS preprocessing (Src/eisPreprocess.py): the two spectral filters over *)
(* a Dict[str, EisData] held on a heap of Python objects, and the label    *)
(* disambiguator over label strings held as sequences of characters.       *)
(* EIS analysis (Notebook/Lib/eisAnalysis.py): renaming and grouping of a  *)
(* dataset by its labels, and the state of charge and temperature of a     *)
(* label as binary64 floats.                                               *)
(***************************************************************************)
EXTENDS Integers, Sequences, FiniteSets, TLC

VARIABLES heap, eis, ret, arg, snap, orig, hist, label, out

vars == <<heap, eis, ret, arg, snap, orig, hist, label, out>>

(***************************************************************************)
(* Bounds of the model.                                                    *)
(***************************************************************************)
\* Points of all series of the caller's dataset together.
MaxPoints == 5
\* Filter calls chained on one dataset (eis2 = f(eis); eis3 = g(eis2)).
MaxCalls == 2
\* Tokens an operator strings together into one label.
MaxTokens == 3
\* Spectra of a dataset that is renamed or grouped.
MaxEntries == 3

\* Python's None, as a reference and as a value.
None == 0

(***************************************************************************)
(* The data: an EisData holds a DataFrame and a metadata dict; a dataset   *)
(* is a dict from spectra name to EisData.  Every one of them is a Python  *)
(* object, so the heap maps an address to the object stored there.         *)
(***************************************************************************)
\* The (Zreal1, Zimg1) pairs a row of a series is drawn from: a = 0,
\* c = 1+1j and b = -2+2j, with |a-b| = 2*|a-c| exactly (hypot(2, 2) and
\* 2*hypot(1, 1) are the same float) and |c-b| > 2*|c-a|.
ZPoints == {<<0, 0>>, <<1, 1>>, <<-2, 2>>}

\* The spectra names of the caller's dataset, in the dict's order.
KeyOrders == {<<"s1">>, <<"s2", "s1">>}

\* A DataFrame as read from a file: a RangeIndex 0..n-1 and the two columns.
Frame(zs) == [i \in 1..Len(zs) |->
                [ix |-> i - 1, Zreal1 |-> zs[i][1], Zimg1 |-> zs[i][2]]]

EisData(dataRef, metaRef) == [kind |-> "EisData", data |-> dataRef, metadata |-> metaRef]
DataFrame(rows) == [kind |-> "DataFrame", rows |-> rows]
MetaDict(comment) == [kind |-> "dict", Comment |-> comment]
DatasetDict(entries) == [kind |-> "Dataset", entries |-> entries]

\* The value of the dataset at address d: its keys in order, each with the
\* rows and the metadata it is bound to.
View(h, d) == [i \in 1..Len(h[d].entries) |->
                 [key |-> h[d].entries[i].key,
                  data |-> h[h[h[d].entries[i].ref].data].rows,
                  metadata |-> h[h[h[d].entries[i].ref].metadata].Comment]]

\* The addresses of the objects the dataset at d is made of.
Reach(h, d) == {d}
                 \cup {h[d].entries[i].ref : i \in 1..Len(h[d].entries)}
                 \cup {h[h[d].entries[i].ref].data : i \in 1..Len(h[d].entries)}
                 \cup {h[h[d].entries[i].ref].metadata : i \in 1..Len(h[d].entries)}

\* New objects holding the dataset value v, allocated after those of h:
\* per entry an EisData, its DataFrame and its metadata dict, then the dict.
Store(h, v) ==
  LET n == Len(v)
      base == Len(h)
      objs == [j \in 1..(3 * n + 1) |->
                 IF j = 3 * n + 1
                   THEN DatasetDict([i \in 1..n |->
                          [key |-> v[i].key, ref |-> base + 3 * (i - 1) + 1]])
                   ELSE LET i == ((j - 1) \div 3) + 1
                            r == (j - 1) % 3
                        IN  IF r = 0 THEN EisData(base + j + 1, base + j + 2)
                            ELSE IF r = 1 THEN DataFrame(v[i].data)
                            ELSE MetaDict(v[i].metadata)]
  IN  [heap |-> h \o objs, ref |-> base + 3 * n + 1]

\* A faulty copy, copy.copy(eis): a new dict bound to the same EisData objects.
shallowcopy(h, d) ==
  [heap |-> Append(h, DatasetDict(h[d].entries)), ref |-> Len(h) + 1]

\* copy.deepcopy(eis): a new dict, and a new EisData, DataFrame and metadata
\* dict per entry, equal in value to the ones copied.
deepcopy(h, d) == Store(h, View(h, d))

(***************************************************************************)
(* pandas Series arithmetic.  A float is NaN or a number; the magnitude of *)
(* a complex number is held by its square (sq), which orders magnitudes    *)
(* exactly: |a| < 2*|b| iff |a|^2 < 4*|b|^2.                               *)
(***************************************************************************)
NaN == [na |-> TRUE, v |-> 0]
Num(x) == [na |-> FALSE, v |-> x]

Column(rows, name) == [i \in 1..Len(rows) |-> rows[i][name]]

\* Series.diff(periods) for periods = -k: x[i] - x[i+k], NaN where i+k is
\* past the end.
diff(col, k) == [i \in 1..Len(col) |->
                   IF i + k <= Len(col) THEN Num(col[i] - col[i + k]) ELSE NaN]

\* (re + 1j * im).abs(), as the square of the magnitude; NaN if a part is.
ComplexAbs(re, im) == [i \in 1..Len(re) |->
                         IF re[i].na \/ im[i].na THEN NaN
                         ELSE Num(re[i].v * re[i].v + im[i].v * im[i].v)]

\* 2 * s on magnitudes held by their squares.
Twice(s) == [i \in 1..Len(s) |-> IF s[i].na THEN NaN ELSE Num(4 * s[i].v)]

\* a < b, elementwise: False where either side is NaN.
SeriesLt(a, b) == [i \in 1..Len(a) |-> ~a[i].na /\ ~b[i].na /\ a[i].v < b[i].v]

isna(s) == [i \in 1..Len(s) |-> s[i].na]

SeriesOr(a, b) == [i \in 1..Len(a) |-> a[i] \/ b[i]]

\* Series.shift(1) of a bool Series: row i takes the value of row i-1 and
\* row 0 takes NaN (the Series becomes of dtype object); the faulty variant is
\* shift(-1).
shiftWrong(s) == [i \in 1..Len(s) |-> IF i < Len(s) THEN Num(s[i + 1]) ELSE NaN]
shift(s) == [i \in 1..Len(s) |-> IF i = 1 THEN NaN ELSE Num(s[i - 1])]

\* .fillna(True).infer_objects(): back to a bool Series; the faulty variant fills
\* with False.
fillnaFalse(s) == [i \in 1..Len(s) |-> IF s[i].na THEN FALSE ELSE s[i].v]
fillna(s) == [i \in 1..Len(s) |-> IF s[i].na THEN TRUE ELSE s[i].v]

\* data[mask]: the rows whose mask is True, in order.  The mask carries the
\* index of data, so the alignment on the index is position by position.
RECURSIVE BoolIndex(_, _)
BoolIndex(rows, mask) ==
  IF rows = <<>> THEN <<>>
  ELSE (IF Head(mask) THEN <<Head(rows)>> ELSE <<>>) \o BoolIndex(Tail(rows), Tail(mask))

(***************************************************************************)
(* The filters on one DataFrame (the body of the loop).                    *)
(***************************************************************************)
\* spectrum.data[spectrum.data["Zreal1"] > 0], with >= 0 as the faulty variant.
NegativeRealMaskWrong(rows) == [i \in 1..Len(rows) |-> rows[i].Zreal1 >= 0]
NegativeRealMask(rows) == [i \in 1..Len(rows) |-> rows[i].Zreal1 > 0]

NegativeRealRows(rows) == BoolIndex(rows, NegativeRealMask(rows))

diff1(rows) == ComplexAbs(diff(Column(rows, "Zreal1"), 1), diff(Column(rows, "Zimg1"), 1))
diff2(rows) == ComplexAbs(diff(Column(rows, "Zreal1"), 2), diff(Column(rows, "Zimg1"), 2))

\* (diff1 < 2 * diff2) | (diff1.isna()) | (diff2.isna()); one faulty variant
\* compares with <=, the other leaves the isna() terms out.
OutlierMaskNoNa(rows) == SeriesLt(diff1(rows), Twice(diff2(rows)))
OutlierMaskWrong(rows) ==
  [i \in 1..Len(rows) |->
     \/ diff1(rows)[i].na
     \/ diff2(rows)[i].na
     \/ diff1(rows)[i].v <= Twice(diff2(rows))[i].v]
OutlierMask(rows) ==
  SeriesOr(SeriesOr(SeriesLt(diff1(rows), Twice(diff2(rows))), isna(diff1(rows))),
           isna(diff2(rows)))

SingleOutlierRows(rows) == BoolIndex(rows, fillna(shift(OutlierMask(rows))))

(***************************************************************************)
(* The filters on a dataset: copy, then per spectrum bind the copy's       *)
(* EisData to a new, filtered DataFrame.                                   *)
(***************************************************************************)
\* The filtered frame of one spectrum, for the filter named f.
FilteredRows(f, rows) == IF f = "filterNegativeReal" THEN NegativeRealRows(rows)
                         ELSE SingleOutlierRows(rows)

\* for spectra in eisCopy: eisCopy[spectra].data = <filtered frame>, where
\* c is [heap, ref] of the copy and f names the filter.
FilterLoop(c, f) ==
  LET h == c.heap
      es == h[c.ref].entries
      n == Len(es)
      frames == [i \in 1..n |-> DataFrame(FilteredRows(f, h[h[es[i].ref].data].rows))]
      bound == [a \in 1..Len(h) |->
                  IF \E i \in 1..n : es[i].ref = a
                    THEN LET i == CHOOSE i \in 1..n : es[i].ref = a
                         IN  [h[a] EXCEPT !.data = Len(h) + i]
                    ELSE h[a]]
  IN  [heap |-> bound \o frames, ref |-> c.ref]

filterNegativeReal(h, d) == FilterLoop(deepcopy(h, d), "filterNegativeReal")

filterSingleOutlier(h, d) == FilterLoop(deepcopy(h, d), "filterSingleOutlier")

Filter(f, h, d) == IF f = "filterNegativeReal" THEN filterNegativeReal(h, d)
                   ELSE filterSingleOutlier(h, d)

(***************************************************************************)
(* The state machine of the filters: the caller holds the dataset eis and  *)
(* chains filter calls, each on the dataset the call before it returned.   *)
(* arg is the argument of the last call, snap its value before the call,   *)
(* orig the value of eis as constructed, hist the calls made so far.       *)
(***************************************************************************)
InitDataset(ks, series) ==
  [i \in 1..Len(ks) |-> [key |-> ks[i], data |-> Frame(series[i]), metadata |-> ks[i]]]

LabelIdle == label = <<>> /\ out = [status |-> "idle"]

InitFilter ==
  /\ \E ks \in KeyOrders :
       \E n1 \in 0..MaxPoints :
         \E n2 \in 0..(IF Len(ks) = 1 THEN 0 ELSE MaxPoints - n1) :
           \E z1 \in [1..n1 -> ZPoints] :
             \E z2 \in [1..n2 -> ZPoints] :
               LET v == InitDataset(ks, <<z1, z2>>)
               IN  /\ heap = Store(<<>>, v).heap
                   /\ eis = Store(<<>>, v).ref
                   /\ orig = v
  /\ ret = None
  /\ arg = None
  /\ snap = <<>>
  /\ hist = <<>>
  /\ LabelIdle

Call(f) ==
  /\ Len(hist) < MaxCalls
  /\ LET a == IF ret = None THEN eis ELSE ret
         r == Filter(f, heap, a)
     IN  /\ arg' = a
         /\ snap' = View(heap, a)
         /\ heap' = r.heap
         /\ ret' = r.ref
  /\ hist' = Append(hist, f)
  /\ UNCHANGED <<eis, orig, label, out>>

CallFilterNegativeReal == Call("filterNegativeReal")

CallFilterSingleOutlier == Call("filterSingleOutlier")

NextFilter == CallFilterNegativeReal \/ CallFilterSingleOutlier

SpecFilter == InitFilter /\ [][NextFilter]_vars

(***************************************************************************)
(* Labels are Python strings, held as sequences of one-character strings.  *)
(* A regular expression without repetition is a sequence of alternatives,  *)
(* each a sequence of character classes; re.search scans the start         *)
(* positions from the left and tries the alternatives in their order.      *)
(***************************************************************************)
Digit == {"0", "1", "2", "3", "4", "5", "6", "7", "8", "9"}

\* \s
Whitespace == {" ", "\t", "\n", "\r", "\f"}

\* A literal string as a pattern.
Lit(str) == [k \in 1..Len(str) |-> {str[k]}]

MatchAt(pat, s, i) ==
  /\ i + Len(pat) - 1 <= Len(s)
  /\ \A k \in 1..Len(pat) : s[i + k - 1] \in pat[k]

\* $ (no MULTILINE): the end of the string, or just before a newline that
\* ends the string.  j is the position after the match.
AtDollar(s, j) == j = Len(s) + 1 \/ (j = Len(s) /\ s[j] = "\n")

NoMatch == [found |-> FALSE, start |-> 0, stop |-> 0]

FirstAlt(alts, s, i, dollar) ==
  CHOOSE a \in 1..Len(alts) :
    /\ MatchAt(alts[a], s, i) /\ (dollar => AtDollar(s, i + Len(alts[a])))
    /\ \A b \in 1..(a - 1) :
         ~(MatchAt(alts[b], s, i) /\ (dollar => AtDollar(s, i + Len(alts[b]))))

RECURSIVE SearchFrom(_, _, _, _)
SearchFrom(alts, s, i, dollar) ==
  IF i > Len(s) THEN NoMatch
  ELSE IF \E a \in 1..Len(alts) :
            MatchAt(alts[a], s, i) /\ (dollar => AtDollar(s, i + Len(alts[a])))
         THEN [found |-> TRUE, start |-> i,
               stop |-> i + Len(alts[FirstAlt(alts, s, i, dollar)])]
         ELSE SearchFrom(alts, s, i + 1, dollar)

\* A faulty search: the last match instead of the first (a scan from the right).
RECURSIVE SearchLastFrom(_, _, _)
SearchLastFrom(alts, s, i) ==
  IF i < 1 THEN NoMatch
  ELSE IF \E a \in 1..Len(alts) : MatchAt(alts[a], s, i)
         THEN [found |-> TRUE, start |-> i,
               stop |-> i + Len(alts[FirstAlt(alts, s, i, FALSE)])]
         ELSE SearchLastFrom(alts, s, i - 1)

\* Match.group(0)
group0(m, s) == SubSeq(s, m.start, m.stop - 1)

\* r"(A|B)(?>\d{2})" and r"(A|B)(\d{2})"
BatteryPattern == <<  <<{"A", "B"}, Digit, Digit>>  >>

\* r"RT\d|-40|-30|-20|-10|00"
TemperaturePattern ==
  << <<{"R"}, {"T"}, Digit>>, Lit(<<"-", "4", "0">>), Lit(<<"-", "3", "0">>),
     Lit(<<"-", "2", "0">>), Lit(<<"-", "1", "0">>), Lit(<<"0", "0">>) >>

\* r"RT\d?|-40|-30|-20|-10|00|_\+00|_0" of renameLabels
RenameTemperaturePattern ==
  << <<{"R"}, {"T"}, Digit>>, Lit(<<"R", "T">>), Lit(<<"-", "4", "0">>),
     Lit(<<"-", "3", "0">>), Lit(<<"-", "2", "0">>), Lit(<<"-", "1", "0">>),
     Lit(<<"0", "0">>), Lit(<<"_", "+", "0", "0">>), Lit(<<"_", "0">>) >>

\* r"(\s\d$)"
RepetitionPattern == <<  <<Whitespace, Digit>>  >>

\* A faulty variant takes the last battery token.
batteryBatchMatchLast(l) == SearchLastFrom(BatteryPattern, l, Len(l))
batteryBatchMatch(l) == SearchFrom(BatteryPattern, l, 1, FALSE)

batteryNumberMatch(l) == SearchFrom(BatteryPattern, l, 1, FALSE)

\* A faulty variant searches with the pattern of renameLabels.
temperatureMatchAsRename(l) == SearchFrom(RenameTemperaturePattern, l, 1, FALSE)
temperatureMatch(l) == SearchFrom(TemperaturePattern, l, 1, FALSE)

runRepetitionMatch(l) == SearchFrom(RepetitionPattern, l, 1, TRUE)

\* The value None of the Optional[str] runRepetition: no string of characters.
NoneStr == <<"None">>

AssertionError(l) == [status |-> "AssertionError", message |-> <<"Invalid label">> \o l]

EisLabelDisambiguation(batch, number, temperature, repetition) ==
  [status |-> "ok", batteryBatch |-> batch, batteryNumber |-> number,
   temperature |-> temperature, runRepetition |-> repetition]

\* A faulty variant that also asserts runRepetitionMatch.
disambiguateLabelAssertsRepetition(l) ==
  IF ~batteryBatchMatch(l).found \/ ~batteryNumberMatch(l).found
       \/ ~temperatureMatch(l).found \/ ~runRepetitionMatch(l).found
    THEN AssertionError(l)
    ELSE EisLabelDisambiguation(
           <<l[batteryBatchMatch(l).start]>>,
           SubSeq(l, batteryNumberMatch(l).start + 1, batteryNumberMatch(l).start + 2),
           group0(temperatureMatch(l), l),
           group0(runRepetitionMatch(l), l))
disambiguateLabel(l) ==
  IF ~batteryBatchMatch(l).found THEN AssertionError(l)
  ELSE IF ~batteryNumberMatch(l).found THEN AssertionError(l)
  ELSE IF ~temperatureMatch(l).found THEN AssertionError(l)
  ELSE EisLabelDisambiguation(
         <<l[batteryBatchMatch(l).start]>>,
         SubSeq(l, batteryNumberMatch(l).start + 1, batteryNumberMatch(l).start + 2),
         group0(temperatureMatch(l), l),
         IF runRepetitionMatch(l).found THEN group0(runRepetitionMatch(l), l)
         ELSE NoneStr)

(***************************************************************************)
(* The state machine of the labels: a label as an operator wrote it, and   *)
(* what disambiguateLabel makes of it.                                     *)
(***************************************************************************)
\* The pieces operators put labels together from.
Tokens == { <<"A", "0", "1">>, <<"B", "0", "2">>, <<"A", "0", "0">>, <<"A", "0">>,
            <<"R", "T", "3">>, <<"R", "T">>, <<"-", "4", "0">>, <<"0", "0">>,
            <<" ", "2">>, <<"\n">>, <<"_", "0">>, <<"_", "+", "0", "0">> }

\* "UCT_AST9AH_"
Prefix == <<"U", "C", "T", "_", "A", "S", "T", "9", "A", "H", "_">>

\* "UCT_AST9AH_A01_RT1 2" and "UCT_AST9AH_B07_-20"
CanonicalLabels == { Prefix \o <<"A", "0", "1", "_", "R", "T", "1", " ", "2">>,
                     Prefix \o <<"B", "0", "7", "_", "-", "2", "0">> }

RECURSIVE Concat(_)
Concat(ts) == IF ts = <<>> THEN <<>> ELSE Head(ts) \o Concat(Tail(ts))

Labels == {Concat(ts) : ts \in UNION {[1..k -> Tokens] : k \in 0..MaxTokens}}
            \cup CanonicalLabels

FilterIdle == /\ heap = <<>> /\ eis = None /\ ret = None /\ arg = None
              /\ snap = <<>> /\ orig = <<>> /\ hist = <<>>

InitLabel ==
  /\ label \in Labels
  /\ out = [status |-> "idle"]
  /\ FilterIdle

Disambiguate ==
  /\ out.status = "idle"
  /\ out' = disambiguateLabel(label)
  /\ UNCHANGED <<label, heap, eis, ret, arg, snap, orig, hist>>

NextLabel == Disambiguate

SpecLabel == InitLabel /\ [][NextLabel]_vars

(***************************************************************************)
(* Properties of the filters.  After a call, snap[i].data is the series    *)
(* the filter was given for the i-th spectrum (its points at positions     *)
(* 1..n stand for the indices 0..n-1) and Out(i) the series it returned.   *)
(***************************************************************************)
Called(f) == hist # <<>> /\ hist[Len(hist)] = f

Out(i) == View(heap, ret)[i].data

Range(s) == {s[i] : i \in 1..Len(s)}

\* |Z(a) - Z(b)|^2 of two points.
Dist2(a, b) == (a.Zreal1 - b.Zreal1) * (a.Zreal1 - b.Zreal1)
                 + (a.Zimg1 - b.Zimg1) * (a.Zimg1 - b.Zimg1)

\* The rule of the outlier filter for the point at position p of series s
\* (p = i + 2 for the index i of d1[i] and d2[i]): kept if it is the first
\* point, if d1 or d2 is undefined, or if d1 < 2 * d2.
KeptByRule(s, p) ==
  \/ p = 1
  \/ p = Len(s)
  \/ Dist2(s[p - 1], s[p]) < 4 * Dist2(s[p - 1], s[p + 1])

\* The points of s at the positions of the set keep, from position p on,
\* in the order of s.
RECURSIVE Subsequence(_, _, _)
Subsequence(s, keep, p) ==
  IF p > Len(s) THEN <<>>
  ELSE (IF p \in keep THEN <<s[p]>> ELSE <<>>) \o Subsequence(s, keep, p + 1)

\* C1 as claimed: the outlier filter never removes index 0, n-2 or n-1.
C1_KeepsFirstAndLastTwo ==
  Called("filterSingleOutlier") =>
    \A i \in 1..Len(snap) :
      LET s == snap[i].data
      IN  \A p \in {1, Len(s) - 1, Len(s)} \cap (1..Len(s)) : s[p] \in Range(Out(i))

\* C1, amended: the outlier filter never removes the point at index 0 and
\* never removes the point at the highest index n-1.
C1_KeepsFirstAndLast ==
  Called("filterSingleOutlier") =>
    \A i \in 1..Len(snap) :
      LET s == snap[i].data
      IN  \A p \in {1, Len(s)} \cap (1..Len(s)) : s[p] \in Range(Out(i))

\* The filter removed the point at index n-2 of a series of n >= 3 points.
C1_Witness ==
  /\ Called("filterSingleOutlier")
  /\ \E i \in 1..Len(snap) :
       LET s == snap[i].data
       IN  /\ Len(s) >= 3
           /\ s[Len(s) - 1] \notin Range(Out(i))
           /\ s[1] \in Range(Out(i))
           /\ s[Len(s)] \in Range(Out(i))

C3_Idempotent ==
  (Len(hist) >= 2 /\ hist[Len(hist)] = "filterSingleOutlier"
     /\ hist[Len(hist) - 1] = "filterSingleOutlier") =>
    \A i \in 1..Len(snap) : Out(i) = snap[i].data

\* C3, amended: a second pass of the outlier filter removes no further
\* point from any series that had 1, 2 or 3 points before the first pass.
C3_IdempotentUpToThreePoints ==
  hist = <<"filterSingleOutlier", "filterSingleOutlier">> =>
    \A i \in 1..Len(snap) :
      Len(orig[i].data) \in 1..3 => Out(i) = snap[i].data

\* Two passes over a series of 3 points, the first of which removed one.
C3_Witness ==
  /\ hist = <<"filterSingleOutlier", "filterSingleOutlier">>
  /\ \E i \in 1..Len(snap) :
       /\ Len(orig[i].data) = 3
       /\ Len(snap[i].data) = 2
       /\ Out(i) = snap[i].data

\* The preconditions of C4 on a series s of 5 points: index 2 is a spike
\* (d1[1] >= 2*d2[1]) and the points 0,1,3,4 alone pass the filter's rule.
SingleSpike(s) ==
  /\ Len(s) = 5
  /\ Dist2(s[2], s[3]) >= 4 * Dist2(s[2], s[4])
  /\ Dist2(s[1], s[2]) < 4 * Dist2(s[1], s[4])
  /\ Dist2(s[2], s[4]) < 4 * Dist2(s[2], s[5])

\* C4 as claimed: on such a series the filter removes index 2 and only
\* index 2.
C4_RemovesOnlySpike ==
  Called("filterSingleOutlier") =>
    \A i \in 1..Len(snap) :
      LET s == snap[i].data
      IN  SingleSpike(s) => Out(i) = <<s[1], s[2], s[4], s[5]>>

\* C4, amended: on such a series the filter removes index 2 and keeps
\* indices 0 and 4; it removes only index 2 exactly when the spike does not
\* flag its neighbours, that is d1[0] < 2*d2[0] and d1[2] < 2*d2[2].
C4_RemovesSpike ==
  Called("filterSingleOutlier") =>
    \A i \in 1..Len(snap) :
      LET s == snap[i].data
      IN  SingleSpike(s) =>
            /\ s[3] \notin Range(Out(i))
            /\ s[1] \in Range(Out(i))
            /\ s[5] \in Range(Out(i))
            /\ (Out(i) = <<s[1], s[2], s[4], s[5]>>) <=>
                 (/\ Dist2(s[1], s[2]) < 4 * Dist2(s[1], s[3])
                  /\ Dist2(s[3], s[4]) < 4 * Dist2(s[3], s[5]))

\* A spike series from which the filter removed index 2 alone.
C4_Witness ==
  /\ Called("filterSingleOutlier")
  /\ \E i \in 1..Len(snap) :
       LET s == snap[i].data
       IN  SingleSpike(s) /\ Out(i) = <<s[1], s[2], s[4], s[5]>>

C6_ArgumentUntouched ==
  hist # <<>> =>
    /\ View(heap, arg) = snap
    /\ View(heap, eis) = orig
    /\ Reach(heap, ret) \cap Reach(heap, arg) = {}
    /\ Reach(heap, ret) \cap Reach(heap, eis) = {}

\* Both filters were called in a row on a dataset of two spectra and each
\* removed a point.
C6_Witness ==
  /\ Len(hist) = 2
  /\ hist[1] # hist[2]
  /\ Len(orig) = 2
  /\ View(heap, ret) # snap
  /\ snap # orig

(***************************************************************************)
(* Properties of disambiguateLabel.                                        *)
(***************************************************************************)
Done == out.status # "idle"

\* A letter from {A, B} immediately followed by two digits starts at i.
BatteryTokenAt(i) ==
  /\ i + 2 <= Len(label)
  /\ label[i] \in {"A", "B"}
  /\ label[i + 1] \in Digit
  /\ label[i + 2] \in Digit

\* The string code starts at position i of the label.
CodeAt(code, i) ==
  /\ i + Len(code) - 1 <= Len(label)
  /\ SubSeq(label, i, i + Len(code) - 1) = code

NumericCodes == { <<"-", "4", "0">>, <<"-", "3", "0">>, <<"-", "2", "0">>,
                  <<"-", "1", "0">>, <<"0", "0">> }

\* The closed set of the claims: RT1, RT2, -40, -30, -20, -10, 00.
ClosedCodes == { <<"R", "T", "1">>, <<"R", "T", "2">> } \cup NumericCodes

\* The vocabulary of the specification: the closed set and a bare RT.
VocabularyCodes == ClosedCodes \cup { <<"R", "T">> }

\* RT followed by any one digit, and the numeric codes.
RTDigitCodes == { <<"R", "T", d>> : d \in Digit } \cup NumericCodes

Positions == 1..Len(label)

HasBatteryToken == \E i \in Positions : BatteryTokenAt(i)

HasCode(codes) == \E i \in Positions : \E c \in codes : CodeAt(c, i)

\* The label ends with a whitespace character and a digit.
EndsWithRepetition ==
  /\ Len(label) >= 2
  /\ label[Len(label) - 1] \in Whitespace
  /\ label[Len(label)] \in Digit

\* C7: a label without a battery token (A or B and two digits) is rejected,
\* a label without a temperature code is rejected, and a label that has
\* both is accepted whether or not it ends with a repetition marker.
C7_MissingFieldRejected ==
  Done =>
    /\ ~HasBatteryToken => out.status = "AssertionError"
    /\ ~HasCode(VocabularyCodes) => out.status = "AssertionError"
    /\ (HasBatteryToken /\ HasCode(ClosedCodes)) =>
         /\ out.status = "ok"
         /\ ~EndsWithRepetition /\ label[Len(label)] # "\n" => out.runRepetition = NoneStr

\* A label with a battery token and a temperature code and no repetition
\* marker was accepted.
C7_Witness ==
  /\ Done
  /\ HasBatteryToken
  /\ HasCode(ClosedCodes)
  /\ ~EndsWithRepetition
  /\ out.status = "ok"
  /\ out.runRepetition = NoneStr

\* Two different battery tokens, or two different temperature codes.
SeveralBatteryTokens ==
  \E i, j \in Positions :
    /\ BatteryTokenAt(i) /\ BatteryTokenAt(j)
    /\ SubSeq(label, i, i + 2) # SubSeq(label, j, j + 2)

SeveralCodes ==
  \E c, d \in ClosedCodes : c # d /\ HasCode({c}) /\ HasCode({d})

\* C8 as claimed: a label with more than one candidate for a required
\* field is rejected.
C8_SeveralCandidatesRejected ==
  (Done /\ (SeveralBatteryTokens \/ SeveralCodes)) => out.status = "AssertionError"

\* C8, amended: several candidates for a required field never cause a
\* rejection: a label with at least one battery token and at least one
\* temperature code is accepted however many it has, and the Identity is
\* read from the left-most battery token and the left-most temperature code.
C8_SeveralCandidatesLeftmostWins ==
  (Done /\ (SeveralBatteryTokens \/ SeveralCodes) /\ HasBatteryToken /\ HasCode(ClosedCodes)) =>
    /\ out.status = "ok"
    /\ \E i \in Positions :
         /\ BatteryTokenAt(i)
         /\ \A j \in 1..(i - 1) : ~BatteryTokenAt(j)
         /\ out.batteryBatch = <<label[i]>>
    /\ \E i \in Positions : \E c \in RTDigitCodes :
         /\ CodeAt(c, i)
         /\ \A j \in 1..(i - 1) : \A d \in RTDigitCodes : ~CodeAt(d, j)
         /\ out.temperature = c

\* A label with two different battery tokens and two different temperature
\* codes was accepted.
C8_Witness ==
  /\ Done
  /\ out.status = "ok"
  /\ \E i, j \in Positions :
       /\ i < j /\ BatteryTokenAt(i) /\ BatteryTokenAt(j) /\ label[i] # label[j]
       /\ out.batteryBatch = <<label[i]>>
  /\ \E i, j \in Positions : \E c, d \in ClosedCodes :
       i < j /\ c # d /\ CodeAt(c, i) /\ CodeAt(d, j) /\ out.temperature = c

\* C9: for an accepted label, batch and number are the letter and the two
\* digits of the left-most battery token, temperature is the left-most
\* temperature-code match, and runRepetition is the whitespace and digit at
\* the very end of the label, or None when the label does not end that way;
\* "UCT_AST9AH_A01_RT1 2" yields A, 01, RT1 and " 2".
C9_FieldsFromLeftmostMatches ==
  (Done /\ out.status = "ok") =>
    /\ \E i \in Positions :
         /\ BatteryTokenAt(i)
         /\ \A j \in 1..(i - 1) : ~BatteryTokenAt(j)
         /\ out.batteryBatch = <<label[i]>>
         /\ out.batteryNumber = <<label[i + 1], label[i + 2]>>
    /\ \E i \in Positions : \E c \in RTDigitCodes :
         /\ CodeAt(c, i)
         /\ \A j \in 1..(i - 1) : \A d \in RTDigitCodes : ~CodeAt(d, j)
         /\ out.temperature = c
    /\ out.runRepetition =
         IF EndsWithRepetition THEN <<label[Len(label) - 1], label[Len(label)]>>
         ELSE NoneStr
    /\ label = Prefix \o <<"A", "0", "1", "_", "R", "T", "1", " ", "2">> =>
         out = EisLabelDisambiguation(<<"A">>, <<"0", "1">>, <<"R", "T", "1">>, <<" ", "2">>)

\* C10 as claimed: every Identity has batch A or B and a temperature of the
\* closed set RT1, RT2, -40, -30, -20, -10, 00.
C10_ClosedVocabulary ==
  (Done /\ out.status = "ok") =>
    /\ out.batteryBatch \in {<<"A">>, <<"B">>}
    /\ out.temperature \in ClosedCodes

\* C10, amended: every Identity has batch A or B and a temperature that is
\* RT followed by one digit (RT3 and RT9 included) or one of -40, -30, -20,
\* -10, 00; a label with no such code (one with a bare RT only, say) is rejected.
C10_RTDigitVocabulary ==
  Done =>
    /\ out.status = "ok" =>
         /\ out.batteryBatch \in {<<"A">>, <<"B">>}
         /\ out.temperature \in RTDigitCodes
    /\ ~HasCode(RTDigitCodes) => out.status = "AssertionError"

\* A label was accepted with temperature RT3.
C10_WitnessAccepted ==
  /\ Done
  /\ out.status = "ok"
  /\ out.temperature = <<"R", "T", "3">>

\* The alternate spellings of the zero-degree code: "_+00" and "_0".
ZeroSpellings == { <<"_", "+", "0", "0">>, <<"_", "0">> }

\* C11 as claimed: disambiguateLabel normalises the alternate spellings: a
\* label whose temperature is written as a bare RT yields RT1, and one
\* whose temperature is written "_+00" or "_0" yields 00.
C11_NormalizesSpellings ==
  (Done /\ HasBatteryToken) =>
    /\ (HasCode({<<"R", "T">>}) /\ ~HasCode(RTDigitCodes)) =>
         (out.status = "ok" /\ out.temperature = <<"R", "T", "1">>)
    /\ (HasCode(ZeroSpellings) /\ ~HasCode(RTDigitCodes \ {<<"0", "0">>})) =>
         (out.status = "ok" /\ out.temperature = <<"0", "0">>)

\* C11, amended: disambiguateLabel rewrites nothing.  The temperature of an
\* Identity is text of the label as written; a label whose only temperature
\* spelling is a bare RT or "_0" is rejected as an invalid label; a label
\* written with "_+00" yields 00 because the text "00" is inside it.
C11_SpellingsNotNormalized ==
  Done =>
    /\ out.status = "ok" => \E i \in Positions : CodeAt(out.temperature, i)
    /\ ((HasCode({<<"R", "T">>}) \/ HasCode({<<"_", "0">>})) /\ ~HasCode(RTDigitCodes)) =>
         out.status = "AssertionError"
    /\ (HasBatteryToken /\ HasCode({<<"_", "+", "0", "0">>})
          /\ ~HasCode(RTDigitCodes \ {<<"0", "0">>})) =>
         (out.status = "ok" /\ out.temperature = <<"0", "0">>)

\* A label with a battery token whose only temperature spelling is a bare RT
\* was rejected.
C11_Witness ==
  /\ Done
  /\ HasBatteryToken
  /\ HasCode({<<"R", "T">>})
  /\ ~HasCode(RTDigitCodes)
  /\ out.status = "AssertionError"

(***************************************************************************)
(* renameLabels: the canonical name of every spectrum of a dataset.  The   *)
(* new dict is bound to the EisData objects of the old one.                *)
(***************************************************************************)
\* re.search(r"(A|B)\d{2}", spectra)
renameBatteryMatch(l) == SearchFrom(BatteryPattern, l, 1, FALSE)

\* re.search(r"RT\d?|-40|-30|-20|-10|00|_\+00|_0", spectra)
renameTemperatureMatch(l) == SearchFrom(RenameTemperaturePattern, l, 1, FALSE)

\* re.search(r"(\s\d$)", spectra)
renameRepetitionMatch(l) == SearchFrom(RepetitionPattern, l, 1, TRUE)

\* The two rewrites of the temperature text.
normalizeTemperature(t) ==
  IF t = <<"_", "+", "0", "0">> \/ t = <<"_", "0">> THEN <<"0", "0">>
  ELSE IF t = <<"R", "T">> THEN <<"R", "T", "1">>
  ELSE t

\* None.group(0): re.search found nothing.
AttributeError == [status |-> "AttributeError"]

\* assert newSpectraName not in renamedEis, f"Duplicate key {newSpectraName}"
DuplicateKey(k) == [status |-> "AssertionError", message |-> <<"Duplicate key ">> \o k]

\* prefix + battery + "_" + temperature, and the repetition marker if found.
newSpectraName(l) ==
  Prefix \o group0(renameBatteryMatch(l), l) \o <<"_">>
    \o normalizeTemperature(group0(renameTemperatureMatch(l), l))
    \o (IF renameRepetitionMatch(l).found THEN group0(renameRepetitionMatch(l), l)
        ELSE <<>>)

\* One pass of the loop body up to the new name: the name, or the error of
\* the search that found nothing.
RenameOne(l) ==
  IF ~renameBatteryMatch(l).found THEN AttributeError
  ELSE IF ~renameTemperatureMatch(l).found THEN AttributeError
  ELSE [status |-> "ok", key |-> newSpectraName(l)]

HasKey(entries, k) == \E j \in 1..Len(entries) : entries[j].key = k

\* A faulty variant of the loop: no assert, a name met again is bound anew.
RECURSIVE RenameLoopOverwrite(_, _, _)
RenameLoopOverwrite(entries, i, renamedEis) ==
  IF i > Len(entries) THEN [status |-> "ok", entries |-> renamedEis]
  ELSE LET r == RenameOne(entries[i].key)
       IN  IF r.status # "ok" THEN r
           ELSE IF HasKey(renamedEis, r.key)
             THEN RenameLoopOverwrite(entries, i + 1,
                    [j \in 1..Len(renamedEis) |->
                       IF renamedEis[j].key = r.key
                         THEN [key |-> r.key, ref |-> entries[i].ref]
                         ELSE renamedEis[j]])
           ELSE RenameLoopOverwrite(entries, i + 1,
                  Append(renamedEis, [key |-> r.key, ref |-> entries[i].ref]))

\* A faulty variant of the loop: every name is bound to the first series.
RECURSIVE RenameLoopFirstSeries(_, _, _)
RenameLoopFirstSeries(entries, i, renamedEis) ==
  IF i > Len(entries) THEN [status |-> "ok", entries |-> renamedEis]
  ELSE LET r == RenameOne(entries[i].key)
       IN  IF r.status # "ok" THEN r
           ELSE IF HasKey(renamedEis, r.key) THEN DuplicateKey(r.key)
           ELSE RenameLoopFirstSeries(entries, i + 1,
                  Append(renamedEis, [key |-> r.key, ref |-> entries[1].ref]))

\* for spectra in eis: ... renamedEis[newSpectraName] = eis[spectra], from
\* the i-th spectrum on, renamedEis being the dict built so far.
RECURSIVE RenameLoop(_, _, _)
RenameLoop(entries, i, renamedEis) ==
  IF i > Len(entries) THEN [status |-> "ok", entries |-> renamedEis]
  ELSE LET r == RenameOne(entries[i].key)
       IN  IF r.status # "ok" THEN r
           ELSE IF HasKey(renamedEis, r.key) THEN DuplicateKey(r.key)
           ELSE RenameLoop(entries, i + 1,
                  Append(renamedEis, [key |-> r.key, ref |-> entries[i].ref]))

\* renameLabels(eis) for the dataset at d: the heap with the new dict and
\* its address, or the exception raised and no dataset.
renameLabels(h, d) ==
  LET r == RenameLoop(h[d].entries, 1, <<>>)
  IN  IF r.status = "ok"
        THEN [out |-> [status |-> "ok"],
              heap |-> Append(h, DatasetDict(r.entries)), ref |-> Len(h) + 1]
        ELSE [out |-> r, heap |-> h, ref |-> None]

(***************************************************************************)
(* groupByBatch, groupByTemperature, groupByBatteryNumber                  *)
(* (Notebook/Lib/eisAnalysis.py): a dict of dicts, keyed by one field of   *)
(* the disambiguated label, bound to the EisData objects of the dataset.   *)
(* A dict is held as the sequence of its entries in insertion order.       *)
(***************************************************************************)
\* A faulty variant of the loop: a label that is not valid is skipped.
RECURSIVE GroupLoopSkipsInvalid(_, _, _, _)
GroupLoopSkipsInvalid(entries, i, field, groups) ==
  IF i > Len(entries) THEN [status |-> "ok", groups |-> groups]
  ELSE LET d == disambiguateLabel(entries[i].key)
           e == [key |-> entries[i].key, ref |-> entries[i].ref]
       IN  IF d.status # "ok" THEN GroupLoopSkipsInvalid(entries, i + 1, field, groups)
           ELSE IF HasKey(groups, d[field])
             THEN GroupLoopSkipsInvalid(entries, i + 1, field,
                    [g \in 1..Len(groups) |->
                       IF groups[g].key = d[field]
                         THEN [key |-> groups[g].key,
                               entries |-> Append(groups[g].entries, e)]
                         ELSE groups[g]])
           ELSE GroupLoopSkipsInvalid(entries, i + 1, field,
                  Append(groups, [key |-> d[field], entries |-> <<e>>]))

\* A faulty variant of the loop: a spectrum is put at the front of its group.
RECURSIVE GroupLoopPrepends(_, _, _, _)
GroupLoopPrepends(entries, i, field, groups) ==
  IF i > Len(entries) THEN [status |-> "ok", groups |-> groups]
  ELSE LET d == disambiguateLabel(entries[i].key)
           e == [key |-> entries[i].key, ref |-> entries[i].ref]
       IN  IF d.status # "ok" THEN d
           ELSE IF HasKey(groups, d[field])
             THEN GroupLoopPrepends(entries, i + 1, field,
                    [g \in 1..Len(groups) |->
                       IF groups[g].key = d[field]
                         THEN [key |-> groups[g].key,
                               entries |-> <<e>> \o groups[g].entries]
                         ELSE groups[g]])
           ELSE GroupLoopPrepends(entries, i + 1, field,
                  Append(groups, [key |-> d[field], entries |-> <<e>>]))

\* A faulty variant of the loop: a group is made anew for every spectrum.
RECURSIVE GroupLoopResets(_, _, _, _)
GroupLoopResets(entries, i, field, groups) ==
  IF i > Len(entries) THEN [status |-> "ok", groups |-> groups]
  ELSE LET d == disambiguateLabel(entries[i].key)
           e == [key |-> entries[i].key, ref |-> entries[i].ref]
       IN  IF d.status # "ok" THEN d
           ELSE IF HasKey(groups, d[field])
             THEN GroupLoopResets(entries, i + 1, field,
                    [g \in 1..Len(groups) |->
                       IF groups[g].key = d[field]
                         THEN [key |-> groups[g].key, entries |-> <<e>>]
                         ELSE groups[g]])
           ELSE GroupLoopResets(entries, i + 1, field,
                  Append(groups, [key |-> d[field], entries |-> <<e>>]))

\* for spectra in eisData: ... eisBy[k][spectra] = eisData[spectra], from the
\* i-th spectrum on; field is the field of the disambiguated label the
\* function groups by, groups the dict of dicts built so far.
RECURSIVE GroupLoop(_, _, _, _)
GroupLoop(entries, i, field, groups) ==
  IF i > Len(entries) THEN [status |-> "ok", groups |-> groups]
  ELSE LET d == disambiguateLabel(entries[i].key)
           e == [key |-> entries[i].key, ref |-> entries[i].ref]
       IN  IF d.status # "ok" THEN d
           ELSE IF HasKey(groups, d[field])
             THEN GroupLoop(entries, i + 1, field,
                    [g \in 1..Len(groups) |->
                       IF groups[g].key = d[field]
                         THEN [key |-> groups[g].key,
                               entries |-> Append(groups[g].entries, e)]
                         ELSE groups[g]])
           ELSE GroupLoop(entries, i + 1, field,
                  Append(groups, [key |-> d[field], entries |-> <<e>>]))

groupByBatch(h, d) == GroupLoop(h[d].entries, 1, "batteryBatch", <<>>)

groupByTemperature(h, d) == GroupLoop(h[d].entries, 1, "temperature", <<>>)

groupByBatteryNumber(h, d) == GroupLoop(h[d].entries, 1, "batteryNumber", <<>>)

GroupBy(f, h, d) == IF f = "groupByBatch" THEN groupByBatch(h, d)
                    ELSE IF f = "groupByTemperature" THEN groupByTemperature(h, d)
                    ELSE groupByBatteryNumber(h, d)

GroupFunctions == {"groupByBatch", "groupByTemperature", "groupByBatteryNumber"}

(***************************************************************************)
(* The state machine of a dataset of labelled spectra: the caller holds    *)
(* the dataset eis as read from the files, may rename it, and groups the   *)
(* dataset it then has.  ret is the renamed dataset, out the outcome of    *)
(* the last call, arg its argument and snap the argument's value before    *)
(* the call.                                                               *)
(***************************************************************************)
\* Labels of the datasets of several spectra: "A01RT", "A01_RT1", "B02_0 2",
\* "UCT_AST9AH_B02_00 2", "RT3A00", "A01", "B02-40", "A01-40".
DatasetLabels ==
  { <<"A", "0", "1", "R", "T">>,
    <<"A", "0", "1", "_", "R", "T", "1">>,
    <<"B", "0", "2", "_", "0", " ", "2">>,
    Prefix \o <<"B", "0", "2", "_", "0", "0", " ", "2">>,
    <<"R", "T", "3", "A", "0", "0">>,
    <<"A", "0", "1">>,
    <<"B", "0", "2", "-", "4", "0">>,
    <<"A", "0", "1", "-", "4", "0">> }

\* The pieces of the raw label of a dataset of one spectrum: the battery
\* tokens A01 and A00, the spellings RT3, RT, "_0" and "_+00" of a
\* temperature, a repetition marker and a newline.
RawTokens == { <<"A", "0", "1">>, <<"A", "0", "0">>, <<"R", "T", "3">>, <<"R", "T">>,
               <<"_", "0">>, <<"_", "+", "0", "0">>, <<" ", "2">>, <<"\n">> }

RawLabels == {Concat(ts) : ts \in UNION {[1..k -> RawTokens] : k \in 0..MaxTokens}}
               \cup CanonicalLabels

\* The keys of a dataset, in the dict's order: one raw label, or up to
\* MaxEntries different labels of DatasetLabels.
DatasetKeys ==
  {<<l>> : l \in RawLabels}
    \cup {ks \in UNION {[1..n -> DatasetLabels] : n \in 0..MaxEntries} :
            \A i, j \in 1..Len(ks) : i # j => ks[i] # ks[j]}

\* The i-th spectrum read: one row, with Zreal1 = i; its Comment is its label.
InitSpectra(ks) ==
  [i \in 1..Len(ks) |-> [key |-> ks[i], data |-> Frame(<<<<i, 0>>>>), metadata |-> ks[i]]]

InitData ==
  /\ \E ks \in DatasetKeys :
       /\ heap = Store(<<>>, InitSpectra(ks)).heap
       /\ eis = Store(<<>>, InitSpectra(ks)).ref
       /\ orig = InitSpectra(ks)
  /\ ret = None
  /\ arg = None
  /\ snap = <<>>
  /\ hist = <<>>
  /\ LabelIdle

\* eis = renameLabels(eis)
CallRenameLabels ==
  /\ hist = <<>>
  /\ LET r == renameLabels(heap, eis)
     IN  /\ heap' = r.heap
         /\ ret' = r.ref
         /\ out' = r.out
  /\ arg' = eis
  /\ snap' = View(heap, eis)
  /\ hist' = Append(hist, "renameLabels")
  /\ UNCHANGED <<eis, orig, label>>

\* groups = f(eis), on the dataset the caller has: the renamed one if
\* renameLabels returned one.
CallGroupBy(f) ==
  /\ out.status \in {"idle", "ok"}
  /\ hist \in {<<>>, <<"renameLabels">>}
  /\ LET a == IF ret = None THEN eis ELSE ret
     IN  /\ arg' = a
         /\ snap' = View(heap, a)
         /\ out' = GroupBy(f, heap, a)
  /\ hist' = Append(hist, f)
  /\ UNCHANGED <<heap, eis, ret, orig, label>>

CallGroupByBatch == CallGroupBy("groupByBatch")

CallGroupByTemperature == CallGroupBy("groupByTemperature")

CallGroupByBatteryNumber == CallGroupBy("groupByBatteryNumber")

NextData == \/ CallRenameLabels
            \/ CallGroupByBatch
            \/ CallGroupByTemperature
            \/ CallGroupByBatteryNumber

SpecData == InitData /\ [][NextData]_vars

(***************************************************************************)
(* Properties of renameLabels.  After the call snap[i].key is the raw      *)
(* label of the i-th spectrum and Renamed the entries of the dataset       *)
(* returned.                                                               *)
(***************************************************************************)
Renamed == heap[ret].entries

RenameDone == hist = <<"renameLabels">>

\* The text w starts at position p of the label l.
TextAt(l, w, p) == p + Len(w) - 1 <= Len(l) /\ SubSeq(l, p, p + Len(w) - 1) = w

\* The spellings of a temperature renameLabels looks for.
Spellings == RTDigitCodes \cup {<<"R", "T">>} \cup ZeroSpellings

\* The canonical code of a spelling.
CanonicalCode(w) == IF w \in ZeroSpellings THEN <<"0", "0">>
                    ELSE IF w = <<"R", "T">> THEN <<"R", "T", "1">>
                    ELSE w

\* w is the spelling the label l has first: none starts left of it, and a
\* bare RT is not cut out of RT and a digit.
FirstSpelling(l, w) ==
  \E p \in 1..Len(l) :
    /\ TextAt(l, w, p)
    /\ \A q \in 1..(p - 1) : \A v \in Spellings : ~TextAt(l, v, q)
    /\ \A v \in Spellings : (TextAt(l, v, p) /\ v # w) => Len(v) < Len(w)

\* b is the battery token the label l has first.
FirstBattery(l, b) ==
  \E p \in 1..Len(l) :
    /\ TextAt(l, b, p)
    /\ Len(b) = 3 /\ b[1] \in {"A", "B"} /\ b[2] \in Digit /\ b[3] \in Digit
    /\ \A q \in 1..(p - 1) :
         ~(q + 2 <= Len(l) /\ l[q] \in {"A", "B"} /\ l[q + 1] \in Digit /\ l[q + 2] \in Digit)

\* The label l ends with a whitespace character and a digit.
EndsWithMarker(l) ==
  Len(l) >= 2 /\ l[Len(l) - 1] \in Whitespace /\ l[Len(l)] \in Digit

\* The repetition marker of the claims: the last two characters of a label
\* that ends with whitespace and a digit, and nothing otherwise.
Marker(l) == IF EndsWithMarker(l) THEN SubSeq(l, Len(l) - 1, Len(l)) ELSE <<>>

\* C12: the key renameLabels gives a raw label is "UCT_AST9AH_", the battery
\* token, "_", the canonical temperature code (never a bare RT, "_+00" or
\* "_0"), and the repetition marker only when the raw label ends with one.
C12_CanonicalKey ==
  (RenameDone /\ out.status = "ok") =>
    \A i \in 1..Len(snap) :
      \E b \in {SubSeq(snap[i].key, p, p + 2) : p \in 1..(Len(snap[i].key) - 2)} :
        \E w \in Spellings :
          /\ FirstBattery(snap[i].key, b)
          /\ FirstSpelling(snap[i].key, w)
          /\ CanonicalCode(w) \in RTDigitCodes
          /\ Renamed[i].key = Prefix \o b \o <<"_">> \o CanonicalCode(w) \o Marker(snap[i].key)

\* renameLabels can name the i-th raw label: it has a battery token and a
\* temperature spelling.
Renamable(i) == RenameOne(snap[i].key).status = "ok"

\* The i-th raw label maps to the canonical label an earlier one maps to.
CollidesAt(i) ==
  /\ Renamable(i)
  /\ \E j \in 1..(i - 1) :
       Renamable(j) /\ newSpectraName(snap[j].key) = newSpectraName(snap[i].key)

\* Two different raw labels of the input map to the same canonical label.
Collides == \E i \in 1..Len(snap) : CollidesAt(i)

\* C13 as claimed: whenever two raw labels map to the same canonical label,
\* renameLabels fails with the duplicate-label error and returns no
\* dataset, in whatever order the labels are processed.
C13_DuplicateError ==
  (RenameDone /\ Collides) =>
    /\ ret = None
    /\ \E i \in 1..Len(snap) : out = DuplicateKey(newSpectraName(snap[i].key))

\* C13, amended: whenever two raw labels map to the same canonical label,
\* renameLabels returns no dataset and binds no name twice.  It fails at
\* the first label, in the order of processing, that either has no battery
\* token or temperature spelling (AttributeError) or maps to the canonical
\* label of an earlier one (AssertionError "Duplicate key ...").
C13_CollisionFails ==
  (RenameDone /\ Collides) =>
    /\ ret = None
    /\ \E i \in 1..Len(snap) :
         /\ \A j \in 1..(i - 1) : Renamable(j) /\ ~CollidesAt(j)
         /\ IF Renamable(i)
              THEN CollidesAt(i) /\ out = DuplicateKey(newSpectraName(snap[i].key))
              ELSE out = AttributeError

\* Two of three labels collided and the duplicate key was reported.
C13_Witness ==
  /\ RenameDone
  /\ Len(snap) = 3
  /\ Collides
  /\ out.status = "AssertionError"

\* C14 as claimed: for every set of raw labels no two of which map to the
\* same canonical label, renameLabels succeeds and returns a dataset with
\* as many entries as the input, each canonical key bound to the series of
\* the raw label that maps to it.
C14_NoCollisionSucceeds ==
  (RenameDone /\ ~Collides) =>
    /\ out.status = "ok"
    /\ Len(Renamed) = Len(snap)
    /\ \A i \in 1..Len(snap) :
         \E j \in 1..Len(Renamed) :
           /\ Renamed[j].key = newSpectraName(snap[i].key)
           /\ Renamed[j].ref = heap[arg].entries[i].ref

\* C14, amended: for every set of raw labels that each have a battery token
\* and a temperature spelling and no two of which map to the same canonical
\* label, renameLabels succeeds and returns a dataset with as many entries
\* as the input, each canonical key bound to the series (the same EisData
\* object) of its raw label; a label without a battery token or a
\* temperature spelling makes it fail with AttributeError.
C14_RenamableSucceeds ==
  (RenameDone /\ ~Collides) =>
    IF \A i \in 1..Len(snap) : Renamable(i)
      THEN /\ out.status = "ok"
           /\ Len(Renamed) = Len(snap)
           /\ \A i \in 1..Len(snap) :
                \E j \in 1..Len(Renamed) :
                  /\ Renamed[j].key = newSpectraName(snap[i].key)
                  /\ Renamed[j].ref = heap[arg].entries[i].ref
                  /\ heap[Renamed[j].ref] = heap[heap[arg].entries[i].ref]
           /\ View(heap, arg) = snap
      ELSE out = AttributeError /\ ret = None

\* Three labels were renamed to three canonical labels.
C14_Witness ==
  /\ RenameDone
  /\ Len(snap) = 3
  /\ out.status = "ok"
  /\ Len(Renamed) = 3

(***************************************************************************)
(* Properties of the grouping functions.  After a call snap is the value   *)
(* of the dataset D that was grouped, heap[arg].entries its entries and    *)
(* out.groups the dict of inner datasets returned.                         *)
(***************************************************************************)
GroupDone == hist # <<>> /\ hist[Len(hist)] \in GroupFunctions

\* The field of the disambiguated label the function called groups by.
GroupField == IF hist[Len(hist)] = "groupByBatch" THEN "batteryBatch"
              ELSE IF hist[Len(hist)] = "groupByTemperature" THEN "temperature"
              ELSE "batteryNumber"

\* Every label of D is a valid label.
AllValid == \A i \in 1..Len(snap) : disambiguateLabel(snap[i].key).status = "ok"

\* The places <<g, n>> of the grouping: the n-th entry of the g-th inner dataset.
Places == UNION {{<<g, n>> : n \in 1..Len(out.groups[g].entries)} : g \in 1..Len(out.groups)}

EntryAt(pl) == out.groups[pl[1]].entries[pl[2]]

\* C15: the grouping of a dataset D of valid labels is a partition of D:
\* every entry of D is in exactly one inner dataset, under its label and
\* bound to the same series; the inner datasets hold len(D) entries in all
\* and none is empty; an entry is in group k iff the field of
\* disambiguateLabel(label) the function groups by is k.
C15_Partition ==
  (GroupDone /\ AllValid) =>
    /\ out.status = "ok"
    /\ \A i \in 1..Len(snap) :
         /\ Cardinality({pl \in Places : EntryAt(pl).key = snap[i].key}) = 1
         /\ \E pl \in Places :
              /\ EntryAt(pl) = heap[arg].entries[i]
              /\ out.groups[pl[1]].key = disambiguateLabel(snap[i].key)[GroupField]
    /\ Cardinality(Places) = Len(snap)
    /\ \A g \in 1..Len(out.groups) : out.groups[g].entries # <<>>
    /\ \A g, k \in 1..Len(out.groups) : g # k => out.groups[g].key # out.groups[k].key
    /\ View(heap, arg) = snap

\* Three valid labels were grouped into two inner datasets.
C15_Witness ==
  /\ GroupDone
  /\ AllValid
  /\ Len(snap) = 3
  /\ out.status = "ok"
  /\ Len(out.groups) = 2

\* C16: if a label of the dataset cannot be disambiguated, the grouping
\* function fails with the invalid-label error of that label and returns
\* no grouping, wherever the label is in the order of processing; the
\* dataset it was given is unchanged.
C16_InvalidLabelPropagates ==
  (GroupDone /\ ~AllValid) =>
    /\ out.status = "AssertionError"
    /\ "groups" \notin DOMAIN out
    /\ \E i \in 1..Len(snap) :
         /\ disambiguateLabel(snap[i].key).status # "ok"
         /\ \A j \in 1..(i - 1) : disambiguateLabel(snap[j].key).status = "ok"
         /\ out = AssertionError(snap[i].key)
    /\ View(heap, arg) = snap

\* The last of three labels was not valid, and the call failed.
C16_Witness ==
  /\ GroupDone
  /\ Len(snap) = 3
  /\ disambiguateLabel(snap[1].key).status = "ok"
  /\ disambiguateLabel(snap[2].key).status = "ok"
  /\ disambiguateLabel(snap[3].key).status # "ok"
  /\ out.status = "AssertionError"

\* The position in D of the entry with label k.
IndexInD(k) == CHOOSE i \in 1..Len(snap) : snap[i].key = k

\* C17: inside every inner dataset the entries are in the order they have
\* in the dataset D that was grouped.
C17_OrderPreserved ==
  (GroupDone /\ out.status = "ok") =>
    \A g \in 1..Len(out.groups) :
      \A m, n \in 1..Len(out.groups[g].entries) :
        m < n => IndexInD(out.groups[g].entries[m].key) < IndexInD(out.groups[g].entries[n].key)

\* An inner dataset holds the first and the third entry of D, in that order.
C17_Witness ==
  /\ GroupDone
  /\ out.status = "ok"
  /\ Len(snap) = 3
  /\ \E g \in 1..Len(out.groups) :
       /\ Len(out.groups[g].entries) = 2
       /\ out.groups[g].entries[1].key = snap[1].key
       /\ out.groups[g].entries[2].key = snap[3].key

(***************************************************************************)
(* Python floats (IEEE 754 binary64).  A natural number of any size is a   *)
(* sequence of limbs, least significant first, without a zero limb at the  *)
(* top; a positive float is m * 2^e with the 53-bit m held as such a       *)
(* number, and zero is m = <<>>.  Every operation rounds to nearest, ties  *)
(* to even.                                                                *)
(***************************************************************************)
LimbBits == 15

LimbBase == 2 ^ LimbBits

\* Bits of the significand of a binary64.
Precision == 53

RECURSIVE BigOfNat(_)
BigOfNat(n) == IF n = 0 THEN <<>> ELSE <<n % LimbBase>> \o BigOfNat(n \div LimbBase)

RECURSIVE BigTrim(_)
BigTrim(x) == IF x # <<>> /\ x[Len(x)] = 0 THEN BigTrim(SubSeq(x, 1, Len(x) - 1)) ELSE x

\* x * m + carry, for m and carry below LimbBase.
RECURSIVE BigMulSmall(_, _, _)
BigMulSmall(x, m, carry) ==
  IF x = <<>> THEN BigOfNat(carry)
  ELSE <<(Head(x) * m + carry) % LimbBase>>
         \o BigMulSmall(Tail(x), m, (Head(x) * m + carry) \div LimbBase)

\* x * 2^k
BigMulPow2(x, k) ==
  IF x = <<>> THEN <<>>
  ELSE [j \in 1..(k \div LimbBits) |-> 0] \o BigMulSmall(x, 2 ^ (k % LimbBits), 0)

\* Quotient and remainder of x by d, for d below LimbBase.
RECURSIVE BigDivRem(_, _)
BigDivRem(x, d) ==
  IF x = <<>> THEN [q |-> <<>>, r |-> 0]
  ELSE LET hi == BigDivRem(Tail(x), d)
           cur == hi.r * LimbBase + Head(x)
       IN  [q |-> BigTrim(<<cur \div d>> \o hi.q), r |-> cur % d]

\* x + y + carry
RECURSIVE BigAdd(_, _, _)
BigAdd(x, y, carry) ==
  IF x = <<>> /\ y = <<>> THEN BigOfNat(carry)
  ELSE LET a == IF x = <<>> THEN 0 ELSE Head(x)
           b == IF y = <<>> THEN 0 ELSE Head(y)
       IN  <<(a + b + carry) % LimbBase>>
             \o BigAdd(IF x = <<>> THEN <<>> ELSE Tail(x),
                       IF y = <<>> THEN <<>> ELSE Tail(y),
                       (a + b + carry) \div LimbBase)

\* x < y
RECURSIVE BigLess(_, _)
BigLess(x, y) ==
  IF Len(x) # Len(y) THEN Len(x) < Len(y)
  ELSE IF x = <<>> THEN FALSE
  ELSE IF x[Len(x)] # y[Len(y)] THEN x[Len(x)] < y[Len(y)]
  ELSE BigLess(BigTrim(SubSeq(x, 1, Len(x) - 1)), BigTrim(SubSeq(y, 1, Len(y) - 1)))

\* x - y - borrow, for x >= y + borrow.
RECURSIVE BigSubLimbs(_, _, _)
BigSubLimbs(x, y, borrow) ==
  IF x = <<>> THEN <<>>
  ELSE LET b == (IF y = <<>> THEN 0 ELSE Head(y)) + borrow
       IN  <<(Head(x) + LimbBase - b) % LimbBase>>
             \o BigSubLimbs(Tail(x), IF y = <<>> THEN <<>> ELSE Tail(y),
                            IF Head(x) < b THEN 1 ELSE 0)

BigSub(x, y) == BigTrim(BigSubLimbs(x, y, 0))

\* |x - y|
BigDist(x, y) == IF BigLess(x, y) THEN BigSub(y, x) ELSE BigSub(x, y)

RECURSIVE BitLength(_)
BitLength(n) == IF n = 0 THEN 0 ELSE 1 + BitLength(n \div 2)

BigBits(x) == IF x = <<>> THEN 0 ELSE LimbBits * (Len(x) - 1) + BitLength(x[Len(x)])

BigOdd(x) == x # <<>> /\ x[1] % 2 = 1

\* x without its s lowest bits; guard is the highest bit dropped, sticky
\* whether a lower one was set.
RECURSIVE BigDropBits(_, _, _, _)
BigDropBits(x, s, guard, sticky) ==
  IF s = 0 THEN [n |-> x, guard |-> guard, sticky |-> sticky]
  ELSE BigDropBits(BigDivRem(x, 2).q, s - 1, BigDivRem(x, 2).r = 1, sticky \/ guard)

\* The float nearest to n * 2^e, or to a number strictly between n * 2^e
\* and (n + 1) * 2^e if inexact; ties go to the even significand.
FloatOf(n, e, inexact) ==
  IF n = <<>> THEN [m |-> <<>>, e |-> 0]
  ELSE IF BigBits(n) <= Precision
    THEN [m |-> BigMulPow2(n, Precision - BigBits(n)), e |-> e - (Precision - BigBits(n))]
  ELSE LET s == BigBits(n) - Precision
           d == BigDropBits(n, s, FALSE, inexact)
           up == d.guard /\ (d.sticky \/ BigOdd(d.n))
           m == IF up THEN BigAdd(d.n, <<>>, 1) ELSE d.n
       IN  IF BigBits(m) > Precision THEN [m |-> BigDivRem(m, 2).q, e |-> e + s + 1]
           ELSE [m |-> m, e |-> e + s]

\* Extra bits of a quotient, so that it has more than Precision of them.
QuotientBits == 5 * LimbBits

\* p / d for a natural p and 0 < d < LimbBase, both exact floats; also the
\* float a decimal literal with value p / d denotes.
FloatDiv(p, d) ==
  FloatOf(BigDivRem(BigMulPow2(BigOfNat(p), QuotientBits), d).q, 0 - QuotientBits,
          BigDivRem(BigMulPow2(BigOfNat(p), QuotientBits), d).r # 0)

\* n + x for an integer n and a float x = m * 2^e with e < 0 and n + x > 0.
FloatAddInt(n, x) ==
  IF n >= 0 THEN FloatOf(BigAdd(x.m, BigMulPow2(BigOfNat(n), 0 - x.e), 0), x.e, FALSE)
  ELSE FloatOf(BigSub(x.m, BigMulPow2(BigOfNat(0 - n), 0 - x.e)), x.e, FALSE)

\* int(s) / float(s) of a string of digits.
RECURSIVE ParseNat(_)
ParseNat(s) ==
  IF s = <<>> THEN 0
  ELSE 10 * ParseNat(SubSeq(s, 1, Len(s) - 1))
         + (CHOOSE v \in 0..9 : ToString(v) = s[Len(s)])

\* int(s) of an optional sign and digits.
ParseInt(s) == IF s[1] = "-" THEN 0 - ParseNat(Tail(s)) ELSE ParseNat(s)

(***************************************************************************)
(* The derived quantities of a label (Notebook/Lib/eisAnalysis.py).        *)
(***************************************************************************)
\* ABSOLUTE_ZERO_CELSIUS = 273.15
ABSOLUTE_ZERO_CELSIUS == FloatDiv(27315, 100)

\* f"{n:02d}"
TwoDigits(n) == <<ToString(n \div 10), ToString(n % 10)>>

\* "100%", "93%", "87%", "80%", "73%", "67%", "60%", "53%", "47%", "40%":
\* the values of socMap for the batteries 01..10 of a batch.
SocPercent ==
  << <<"1", "0", "0", "%">>, <<"9", "3", "%">>, <<"8", "7", "%">>, <<"8", "0", "%">>,
     <<"7", "3", "%">>, <<"6", "7", "%">>, <<"6", "0", "%">>, <<"5", "3", "%">>,
     <<"4", "7", "%">>, <<"4", "0", "%">> >>

socMap == [k \in {<<b>> \o TwoDigits(n) : b \in {"A", "B"}, n \in 1..Len(SocPercent)} |->
             SocPercent[ParseNat(Tail(k))]]

\* socMap[mapIndex] of a key the dict does not have.
KeyError(k) == [status |-> "KeyError", key |-> k]

getSoC(spectra) ==
  LET disambiguation == disambiguateLabel(spectra)
      mapIndex == disambiguation.batteryBatch \o disambiguation.batteryNumber
  IN  IF disambiguation.status # "ok" THEN disambiguation
      ELSE IF mapIndex \notin DOMAIN socMap THEN KeyError(mapIndex)
      ELSE [status |-> "ok", value |-> socMap[mapIndex]]

\* A faulty variant: the percentage is not divided by 100.
getSocNumericPercent(spectra) ==
  IF getSoC(spectra).status # "ok" THEN getSoC(spectra)
  ELSE [status |-> "ok",
        value |-> FloatDiv(ParseNat(SubSeq(getSoC(spectra).value, 1,
                                           Len(getSoC(spectra).value) - 1)), 1)]

\* float(getSoC(spectra)[:-1]) / 100
getSocNumeric(spectra) ==
  IF getSoC(spectra).status # "ok" THEN getSoC(spectra)
  ELSE [status |-> "ok",
        value |-> FloatDiv(ParseNat(SubSeq(getSoC(spectra).value, 1,
                                           Len(getSoC(spectra).value) - 1)), 100)]

\* temperature.startswith("RT")
StartsWithRT(t) == Len(t) >= 2 /\ SubSeq(t, 1, 2) = <<"R", "T">>

\* A faulty variant: the float the decimal sum denotes, not the float sum.
getTemperatureNumericDecimal(spectra) ==
  LET disambiguation == disambiguateLabel(spectra)
  IN  IF disambiguation.status # "ok" THEN disambiguation
      ELSE IF StartsWithRT(disambiguation.temperature)
        THEN [status |-> "ok", value |-> FloatDiv(29815, 100)]
      ELSE [status |-> "ok",
            value |-> FloatDiv(27315 + 100 * ParseInt(disambiguation.temperature), 100)]

getTemperatureNumeric(spectra) ==
  LET disambiguation == disambiguateLabel(spectra)
  IN  IF disambiguation.status # "ok" THEN disambiguation
      ELSE IF StartsWithRT(disambiguation.temperature)
        THEN [status |-> "ok", value |-> FloatAddInt(25, ABSOLUTE_ZERO_CELSIUS)]
      ELSE [status |-> "ok",
            value |-> FloatAddInt(ParseInt(disambiguation.temperature),
                                  ABSOLUTE_ZERO_CELSIUS)]

(***************************************************************************)
(* The state machine of the derived quantities: a label, and what          *)
(* getSocNumeric or getTemperatureNumeric makes of it.                     *)
(***************************************************************************)
\* Battery numbers of the labels: those of the table, and 00 and 11.
MaxBatteryNumber == 11

\* Canonical labels of the batteries A00..A11, B00..B11 at every
\* temperature of the experiment.
DerivedLabels ==
  {Prefix \o <<b>> \o TwoDigits(n) \o <<"_">> \o t :
     b \in {"A", "B"}, n \in 0..MaxBatteryNumber, t \in ClosedCodes}

InitDerived ==
  /\ label \in Labels \cup DerivedLabels
  /\ out = [status |-> "idle"]
  /\ FilterIdle

CallGetSocNumeric ==
  /\ out.status = "idle"
  /\ out' = getSocNumeric(label)
  /\ hist' = <<"getSocNumeric">>
  /\ UNCHANGED <<label, heap, eis, ret, arg, snap, orig>>

CallGetTemperatureNumeric ==
  /\ out.status = "idle"
  /\ out' = getTemperatureNumeric(label)
  /\ hist' = <<"getTemperatureNumeric">>
  /\ UNCHANGED <<label, heap, eis, ret, arg, snap, orig>>

NextDerived == CallGetSocNumeric \/ CallGetTemperatureNumeric

SpecDerived == InitDerived /\ [][NextDerived]_vars

(***************************************************************************)
(* Properties of the derived quantities.                                   *)
(***************************************************************************)
\* The float x is within half a unit of its last place of num / den: it is
\* the float the decimal num / den is written as.
IsNearest(x, num, den) ==
  ~BigLess(BigOfNat(den),
           BigMulSmall(BigDist(BigMulSmall(x.m, den, 0),
                               BigMulPow2(BigOfNat(num), 0 - x.e)), 2, 0))

\* 0 <= x <= 1
InUnitInterval(x) == ~BigLess(BigMulPow2(<<1>>, 0 - x.e), x.m)

\* The float x is n + a exactly, for an integer n and the float a.
IsExactSum(x, n, a) ==
  LET s == IF x.e < a.e THEN 0 - x.e ELSE 0 - a.e
  IN  IF n >= 0
        THEN BigMulPow2(x.m, s + x.e)
               = BigAdd(BigMulPow2(a.m, s + a.e), BigMulPow2(BigOfNat(n), s), 0)
        ELSE BigAdd(BigMulPow2(x.m, s + x.e), BigMulPow2(BigOfNat(0 - n), s), 0)
               = BigMulPow2(a.m, s + a.e)

\* The float next above x.
NextUp(x) == FloatOf(BigAdd(x.m, <<>>, 1), x.e, FALSE)

SocDone == hist = <<"getSocNumeric">>

TemperatureDone == hist = <<"getTemperatureNumeric">>

\* The keys A01..A10 and B01..B10.
TableKeys == {<<b, "0", d>> : b \in {"A", "B"}, d \in Digit \ {"0"}}
               \cup {<<"A", "1", "0">>, <<"B", "1", "0">>}

\* The batch and number of the label, as disambiguateLabel gives them.
MapIndex == disambiguateLabel(label).batteryBatch \o disambiguateLabel(label).batteryNumber

\* C18: for a label whose batch and number are a key of the table (A01..A10,
\* B01..B10) getSocNumeric returns the percentage of the entry divided by
\* 100, a value in [0, 1] (0.60 for B07); for a label whose key is not in
\* the table (A11, B00) the lookup fails and no value is returned.
C18_SocFractionOrUnknown ==
  (SocDone /\ disambiguateLabel(label).status = "ok") =>
    IF MapIndex \in TableKeys
      THEN /\ out.status = "ok"
           /\ IsNearest(out.value,
                        ParseNat(SubSeq(socMap[MapIndex], 1, Len(socMap[MapIndex]) - 1)), 100)
           /\ socMap[MapIndex][Len(socMap[MapIndex])] = "%"
           /\ InUnitInterval(out.value)
           /\ MapIndex = <<"B", "0", "7">> => IsNearest(out.value, 60, 100)
      ELSE /\ out = KeyError(MapIndex)
           /\ "value" \notin DOMAIN out

\* The state of charge of battery B07 was returned.
C18_Witness ==
  /\ SocDone
  /\ disambiguateLabel(label).status = "ok"
  /\ MapIndex = <<"B", "0", "7">>
  /\ out.status = "ok"

\* The kelvin values of the claims, in hundredths.
KelvinHundredths(t) ==
  IF StartsWithRT(t) THEN 29815
  ELSE IF t = <<"-", "4", "0">> THEN 23315
  ELSE IF t = <<"-", "3", "0">> THEN 24315
  ELSE IF t = <<"-", "2", "0">> THEN 25315
  ELSE IF t = <<"-", "1", "0">> THEN 26315
  ELSE 27315

\* The temperature disambiguateLabel gives for the label.
Temperature == disambiguateLabel(label).temperature

\* C19 as claimed: for a valid label getTemperatureNumeric returns 298.15
\* when the temperature code starts with RT, and otherwise 233.15 for -40,
\* 243.15 for -30, 253.15 for -20, 263.15 for -10 and 273.15 for 00.
C19_KelvinValues ==
  (TemperatureDone /\ disambiguateLabel(label).status = "ok") =>
    /\ out.status = "ok"
    /\ IsNearest(out.value, KelvinHundredths(Temperature), 100)

\* C19, amended: for a valid label getTemperatureNumeric returns the float
\* sum 25.0 + 273.15 when the temperature code starts with RT and otherwise
\* the float sum of the signed integer value of the code and 273.15.  The
\* sums are exact, and 273.15 is not: the result is the float 298.15 for
\* RT, 263.15 for -10 and 273.15 for 00, and the float just below 233.15,
\* 243.15 and 253.15 for -40, -30 and -20.
C19_KelvinFloatSums ==
  (TemperatureDone /\ disambiguateLabel(label).status = "ok") =>
    /\ out.status = "ok"
    /\ IsExactSum(out.value,
                  IF StartsWithRT(Temperature) THEN 25 ELSE ParseInt(Temperature),
                  ABSOLUTE_ZERO_CELSIUS)
    /\ IsNearest(ABSOLUTE_ZERO_CELSIUS, 27315, 100)
    /\ IF Temperature \in {<<"-", "4", "0">>, <<"-", "3", "0">>, <<"-", "2", "0">>}
         THEN /\ ~IsNearest(out.value, KelvinHundredths(Temperature), 100)
              /\ IsNearest(NextUp(out.value), KelvinHundredths(Temperature), 100)
         ELSE IsNearest(out.value, KelvinHundredths(Temperature), 100)

\* The temperature of a label at -40 was returned.
C19_Witness ==
  /\ TemperatureDone
  /\ disambiguateLabel(label).status = "ok"
  /\ Temperature = <<"-", "4", "0">>
  /\ out.status = "ok"

(***************************************************************************)
(* renameLabels and disambiguateLabel together.                            *)
(***************************************************************************)
\* The Identity renameLabels extracted from the raw label l: the batch and
\* number of the battery it found, the temperature after the rewrites, and
\* the repetition marker.
RenameIdentity(l) ==
  EisLabelDisambiguation(
    <<group0(renameBatteryMatch(l), l)[1]>>,
    Tail(group0(renameBatteryMatch(l), l)),
    normalizeTemperature(group0(renameTemperatureMatch(l), l)),
    IF renameRepetitionMatch(l).found THEN group0(renameRepetitionMatch(l), l)
    ELSE NoneStr)

\* C20: for every raw label renameLabels accepts, disambiguateLabel accepts
\* the canonical label and returns the batch, number, temperature (after
\* normalization) and repetition marker renameLabels extracted from the raw
\* label; and renaming the canonical label again returns the same label.
C20_RoundTrip ==
  (RenameDone /\ out.status = "ok") =>
    \A i \in 1..Len(snap) :
      /\ disambiguateLabel(Renamed[i].key) = RenameIdentity(snap[i].key)
      /\ RenameOne(Renamed[i].key) = [status |-> "ok", key |-> Renamed[i].key]

====
